---- MODULE Spec2Model ----
(***************************************************************************)
(* The Writestream ledger contract (blockchain/contracts/Writestream.sol)  *)
(* as a state machine.  One action per external function; a call either    *)
(* commits all its writes or reverts to the pre-call state.  The payable   *)
(* calls are also given step by step around their transfer, and the        *)
(* client's WalletProvider (contexts/WalletContext.tsx) is modelled with   *)
(* the browser wallet it listens to.                                       *)
(***************************************************************************)
EXTENDS Integers, Sequences, FiniteSets, TLC

\* ---------------------------------------------------------------- bounds
MaxArticles == 2      \* publishArticle calls explored
MaxCalls    == 3      \* committed calls explored
InitBalance == 2      \* funds every account starts with

\* ------------------------------------------------------------- addresses
ZeroAddress == "0x0"              \* address(0): author of a default record
This        == "this"             \* the deployed contract itself
EOA         == {"alice"}          \* externally owned accounts
\* contract accounts with a payable receive() that calls back into the ledger
Reentrant   == {"bob"}
NonPayable  == {"vault"}          \* contract accounts without a payable receive
Accounts    == EOA \cup Reentrant \cup NonPayable
Holders     == Accounts \cup {ZeroAddress, This}

\* keys of the mappings: 0 is never assigned, 1..MaxArticles can be published
ArticleIds  == 0..MaxArticles
\* inputs of the calls
CallIds     == 1..MaxArticles     \* articleId arguments
Prices      == {0, 1, 2}          \* price arguments (0: free)
Values      == {0, 1, 2}          \* msg.value of the payable calls
\* <<title, ipfsHash>> arguments of publishArticle; no validation on chain
Contents    == {<<"", "">>, <<"A", "Qm1">>}

VARIABLES articleCount, articles, hasAccess, hasVoted, userVote,
          balance, logs, txCount, lastCall,
          frame,          \* the payable call whose transfer is running
          \* the client (contexts/WalletContext.tsx) and the browser wallet
          walletAccount, walletEvents, account, provider, contract, isLoading,
          connecting, checking

clientVars == <<walletAccount, walletEvents, account, provider, contract,
                isLoading, connecting, checking>>

vars   == <<articleCount, articles, hasAccess, hasVoted, userVote,
            balance, logs, txCount, lastCall, frame, clientVars>>

\* no payable call is between its writes and the end of its transfer
NoFrame == [stage |-> "none"]
\* null of the client's state, and an async function that is not running
Null    == "null"
NotRunning == [pc |-> "done", address |-> Null]

\* ------------------------------------------------------------ data model
\* mutant: the two strings stored in each other's field
Article_Swapped(id, author, title, ipfsHash, price, upvotes, downvotes) ==
    [id |-> id, author |-> author, title |-> ipfsHash, ipfsHash |-> title,
     price |-> price, upvotes |-> upvotes, downvotes |-> downvotes]

Article(id, author, title, ipfsHash, price, upvotes, downvotes) ==
    [id |-> id, author |-> author, title |-> title, ipfsHash |-> ipfsHash,
     price |-> price, upvotes |-> upvotes, downvotes |-> downvotes]

\* the value of a mapping slot that was never written
DefaultArticle == Article(0, ZeroAddress, "", "", 0, 0, 0)

\* the call being executed: msg.sender, msg.value and the arguments
Call(op, sender, id, value, isUpvote, title, ipfsHash, price) ==
    [op |-> op, sender |-> sender, id |-> id, value |-> value,
     isUpvote |-> isUpvote, title |-> title, ipfsHash |-> ipfsHash,
     price |-> price, status |-> "ok"]

\* ----------------------------------------------------------------- views
\* mutant: the free-article shortcut left out
checkAccess_StoredOnly(articleId, user) == hasAccess[articleId][user]

\* mutant: the author of an article is given access to it
checkAccess_AuthorToo(articleId, user) ==
    LET article == articles[articleId]
    IN  IF article.price = 0 \/ article.author = user THEN TRUE
        ELSE hasAccess[articleId][user]

checkAccess(articleId, user) ==
    LET article == articles[articleId]
    IN  IF article.price = 0 THEN TRUE ELSE hasAccess[articleId][user]

\* mutant: an id without a record is not reported as free
isArticleFree_IfExists(articleId) ==
    LET article == articles[articleId] IN article.id # 0 /\ article.price = 0

isArticleFree(articleId) ==
    LET article == articles[articleId] IN article.price = 0

getArticleVotes(articleId) ==
    LET article == articles[articleId] IN <<article.upvotes, article.downvotes>>

hasUserVoted(articleId, user) == hasVoted[articleId][user]

getUserVote(articleId, user) == userVote[articleId][user]

\* The client's article page (pages/ArticleContent.tsx, loadArticle): the
\* content is fetched when setHasAccess receives true; user is the account
\* the wallet context supplies.
loadArticle(articleId, user) ==
    LET articleData == articles[articleId]
        access      == checkAccess(articleId, user)
        isAuthor    == articleData.author = user
        isFree      == articleData.price = 0
    IN  access \/ isAuthor \/ isFree

\* --------------------------------------------------------------- helpers
\* mutant: the attached value is not returned to the caller
Revert_KeepsValue(call, reason) ==
    /\ lastCall' = [call EXCEPT !.status = reason]
    /\ logs' = <<>>
    /\ balance' = [balance EXCEPT ![call.sender] = @ - call.value,
                                  ![This] = @ + call.value]
    /\ UNCHANGED <<articleCount, articles, hasAccess, hasVoted, userVote, txCount>>

\* a failed require / failed transfer: every write of the call is undone
Revert(call, reason) ==
    /\ lastCall' = [call EXCEPT !.status = reason]
    /\ logs' = <<>>
    /\ UNCHANGED <<articleCount, articles, hasAccess, hasVoted, userVote,
                   balance, txCount>>

\* mutant: the event is emitted twice
Emit_Twice(event) == <<event, event>>

\* emit: the event joins the logs of the running call
Emit(event) == <<event>>

\* mutant: msg.value is credited without being taken from the caller
ReceiveValue_Minted(bal, sender, value) ==
    [bal EXCEPT ![This] = @ + value]

\* msg.value is credited to the contract when a payable call starts
ReceiveValue(bal, sender, value) ==
    [bal EXCEPT ![sender] = @ - value, ![This] = @ + value]

\* address.transfer succeeds unless the recipient's code rejects the funds
TransferSucceeds(to) == to \notin NonPayable

\* mutant: the value is sent to address(0)
Transfer_Burnt(bal, to, amount) ==
    [bal EXCEPT ![This] = @ - amount, !["0x0"] = @ + amount]

\* mutant: the value stays in the contract
Transfer_Retained(bal, to, amount) == bal

\* address.transfer(amount) out of the contract's balance
Transfer(bal, to, amount) ==
    [bal EXCEPT ![This] = @ - amount, ![to] = @ + amount]

\* mutant: send() with its result ignored, the call goes on without paying
TransferFailed_Ignored(call) ==
    /\ lastCall' = call
    /\ hasAccess' = IF call.op = "purchaseArticle"
                    THEN [hasAccess EXCEPT ![call.id][call.sender] = TRUE]
                    ELSE hasAccess
    /\ logs' = <<>>
    /\ UNCHANGED <<articleCount, articles, hasVoted, userVote, balance, txCount>>

\* transfer() propagates the recipient's failure: the call reverts
TransferFailed(call) == Revert(call, "transfer failed")

Init ==
    /\ articleCount = 0
    /\ articles = [i \in ArticleIds |-> DefaultArticle]
    /\ hasAccess = [i \in ArticleIds |-> [a \in Accounts |-> FALSE]]
    /\ hasVoted = [i \in ArticleIds |-> [a \in Accounts |-> FALSE]]
    /\ userVote = [i \in ArticleIds |-> [a \in Accounts |-> FALSE]]
    /\ balance = [h \in Holders |-> IF h \in Accounts THEN InitBalance ELSE 0]
    /\ logs = <<>>
    /\ txCount = 0
    /\ lastCall = Call("constructor", ZeroAddress, 0, 0, FALSE, "", "", 0)
    /\ frame = NoFrame
    /\ walletAccount = Null
    /\ walletEvents = <<>>
    /\ account = Null
    /\ provider = Null
    /\ contract = Null
    /\ isLoading = TRUE
    /\ connecting = NotRunning
    /\ checking = [pc |-> "start", address |-> Null]

\* --------------------------------------------------------------- actions
\* mutant: the counter is not advanced past the first article
NewArticleId_Reuse(count) == IF count = 0 THEN 1 ELSE count

\* articleCount++
NewArticleId(count) == count + 1

\* mutant: an empty title is rejected
publishArticle_RequiresTitle(sender, title, ipfsHash, price) ==
    /\ articleCount < MaxArticles
    /\ LET call == Call("publishArticle", sender, 0, 0, FALSE, title, ipfsHash, price)
           newCount == NewArticleId(articleCount)
       IN  IF title = ""
           THEN Revert(call, "Title required")
           ELSE /\ articleCount' = newCount
                /\ articles' = [articles EXCEPT ![newCount] =
                                   Article(newCount, sender, title, ipfsHash, price, 0, 0)]
                /\ logs' = Emit(
                       [name |-> "ArticlePublished", id |-> newCount,
                        author |-> sender, title |-> title, ipfsHash |-> ipfsHash])
                /\ lastCall' = call
                /\ txCount' = txCount + 1
                /\ UNCHANGED <<hasAccess, hasVoted, userVote, balance>>

publishArticle(sender, title, ipfsHash, price) ==
    /\ articleCount < MaxArticles
    /\ LET newCount == NewArticleId(articleCount)
       IN  /\ articleCount' = newCount
           /\ articles' = [articles EXCEPT ![newCount] =
                              Article(newCount, sender, title, ipfsHash, price, 0, 0)]
           /\ logs' = Emit(
                  [name |-> "ArticlePublished", id |-> newCount, author |-> sender,
                   title |-> title, ipfsHash |-> ipfsHash])
    /\ lastCall' = Call("publishArticle", sender, 0, 0, FALSE, title, ipfsHash, price)
    /\ txCount' = txCount + 1
    /\ UNCHANGED <<hasAccess, hasVoted, userVote, balance>>

tipWriter(sender, articleId, value) ==
    /\ value <= balance[sender]
    /\ LET article == articles[articleId]
           call    == Call("tipWriter", sender, articleId, value, FALSE, "", "", 0)
           held    == ReceiveValue(balance, sender, value)
       IN  IF ~TransferSucceeds(article.author)
           THEN TransferFailed(call)
           ELSE /\ balance' = Transfer(held, article.author, value)
                /\ logs' = Emit(
                       [name |-> "TipSent", id |-> articleId, from |-> sender,
                        amount |-> value])
                /\ lastCall' = call
                /\ txCount' = txCount + 1
                /\ UNCHANGED <<articleCount, articles, hasAccess, hasVoted, userVote>>

\* mutant: the payment check left out
PaymentSufficient_Always(value, price) == TRUE

PaymentSufficient(value, price) == value >= price

\* mutant: the grant is written for every account
GrantAccess_All(access, articleId, buyer) ==
    [access EXCEPT ![articleId] = [a \in Accounts |-> TRUE]]

\* mutant: the stored flag is flipped instead of set
GrantAccess_Toggle(access, articleId, buyer) ==
    [access EXCEPT ![articleId][buyer] = ~@]

\* mutant: the grant is not stored
GrantAccess_Skip(access, articleId, buyer) == access

GrantAccess(access, articleId, buyer) ==
    [access EXCEPT ![articleId][buyer] = TRUE]

purchaseArticle(sender, articleId, value) ==
    /\ value <= balance[sender]
    /\ LET article == articles[articleId]
           call    == Call("purchaseArticle", sender, articleId, value, FALSE, "", "", 0)
           held    == ReceiveValue(balance, sender, value)
       IN  IF ~(article.price > 0)
           THEN Revert(call, "Article is free")
           ELSE IF ~PaymentSufficient(value, article.price)
           THEN Revert(call, "Insufficient payment")
           ELSE LET granted == GrantAccess(hasAccess, articleId, sender)
                IN  IF ~TransferSucceeds(article.author)
                    THEN TransferFailed(call)
                    ELSE /\ hasAccess' = granted
                         /\ balance' = Transfer(held, article.author, value)
                         /\ logs' = Emit(
                                [name |-> "ArticlePurchased", id |-> articleId,
                                 buyer |-> sender])
                         /\ lastCall' = call
                         /\ txCount' = txCount + 1
                         /\ UNCHANGED <<articleCount, articles, hasVoted, userVote>>

\* mutant: the record is rebuilt from a fresh struct, its author lost
CountVote_Rebuilt(article, isUpvote) ==
    IF isUpvote
    THEN [article EXCEPT !.upvotes = @ + 1, !.author = ZeroAddress]
    ELSE [article EXCEPT !.downvotes = @ + 1, !.author = ZeroAddress]

\* mutant: both counters move
CountVote_Both(article, isUpvote) ==
    [article EXCEPT !.upvotes = @ + 1, !.downvotes = @ + 1]

CountVote(article, isUpvote) ==
    IF isUpvote
    THEN [article EXCEPT !.upvotes = @ + 1]
    ELSE [article EXCEPT !.downvotes = @ + 1]

\* mutant: the duplicate-vote check left out
AlreadyVoted_Never(articleId, voter) == FALSE

AlreadyVoted(articleId, voter) == hasVoted[articleId][voter]

\* mutant: the direction is stored but the voter is not flagged
voteArticle_NoFlag(sender, articleId, isUpvote) ==
    /\ LET article == articles[articleId]
           call    == Call("voteArticle", sender, articleId, 0, isUpvote, "", "", 0)
       IN  IF article.price > 0 /\ ~hasAccess[articleId][sender]
           THEN Revert(call, "Must purchase article to vote")
           ELSE IF AlreadyVoted(articleId, sender)
           THEN Revert(call, "Already voted on this article")
           ELSE /\ userVote' = [userVote EXCEPT ![articleId][sender] = isUpvote]
                /\ articles' = [articles EXCEPT ![articleId] = CountVote(@, isUpvote)]
                /\ logs' = Emit(
                       [name |-> "ArticleVoted", id |-> articleId, voter |-> sender,
                        isUpvote |-> isUpvote])
                /\ lastCall' = call
                /\ txCount' = txCount + 1
                /\ UNCHANGED <<articleCount, hasAccess, hasVoted, balance>>

voteArticle(sender, articleId, isUpvote) ==
    /\ LET article == articles[articleId]
           call    == Call("voteArticle", sender, articleId, 0, isUpvote, "", "", 0)
       IN  IF article.price > 0 /\ ~hasAccess[articleId][sender]
           THEN Revert(call, "Must purchase article to vote")
           ELSE IF AlreadyVoted(articleId, sender)
           THEN Revert(call, "Already voted on this article")
           ELSE /\ hasVoted' = [hasVoted EXCEPT ![articleId][sender] = TRUE]
                /\ userVote' = [userVote EXCEPT ![articleId][sender] = isUpvote]
                /\ articles' = [articles EXCEPT ![articleId] = CountVote(@, isUpvote)]
                /\ logs' = Emit(
                       [name |-> "ArticleVoted", id |-> articleId, voter |-> sender,
                        isUpvote |-> isUpvote])
                /\ lastCall' = call
                /\ txCount' = txCount + 1
                /\ UNCHANGED <<articleCount, hasAccess, balance>>

\* ------------------------------------------------- the callers' choices
PublishCalls ==
    \E s \in Accounts, c \in Contents, p \in Prices :
        publishArticle(s, c[1], c[2], p)

TipCalls ==
    \E s \in Accounts, i \in CallIds, v \in Values : tipWriter(s, i, v)

PurchaseCalls ==
    \E s \in Accounts, i \in CallIds, v \in Values : purchaseArticle(s, i, v)

VoteCalls ==
    \E s \in Accounts, i \in CallIds, b \in BOOLEAN : voteArticle(s, i, b)

\* A reverted call leaves every variable the contract reads as it was, so the
\* calls that can follow it are the calls that could be made in its place:
\* the exploration goes on from committed calls only, up to MaxCalls of them.
Explored == lastCall.status = "ok" /\ txCount < MaxCalls

\* A whole call of the ledger, made while no transfer of another call is
\* running; the client's state is not involved.
WholeCall(call) == frame = NoFrame /\ call /\ UNCHANGED <<frame, clientVars>>

Publish  == Explored /\ WholeCall(PublishCalls)
Tip      == Explored /\ WholeCall(TipCalls)
Purchase == Explored /\ WholeCall(PurchaseCalls)
Vote     == Explored /\ WholeCall(VoteCalls)

Next == Publish \/ Tip \/ Purchase \/ Vote

Spec == Init /\ [][Next]_vars

\* The same calls, with the reverting ones explored after the MaxCalls-th
\* committed call as well.
ExploredAtCap == lastCall.status = "ok" /\ txCount' <= MaxCalls

PublishAtCap  == WholeCall(PublishCalls) /\ ExploredAtCap
TipAtCap      == WholeCall(TipCalls) /\ ExploredAtCap
PurchaseAtCap == WholeCall(PurchaseCalls) /\ ExploredAtCap
VoteAtCap     == WholeCall(VoteCalls) /\ ExploredAtCap

NextAtCap == PublishAtCap \/ TipAtCap \/ PurchaseAtCap \/ VoteAtCap

SpecAtCap == Init /\ [][NextAtCap]_vars

\* The calls on article 1 alone, one committed call deeper than Spec.
DeepIds     == {1}
DeepContent == <<"A", "Qm1">>

ExploredDeep == lastCall.status = "ok" /\ txCount < MaxCalls + 1

PublishDeep ==
    /\ ExploredDeep
    /\ WholeCall(\E s \in Accounts, p \in Prices :
           publishArticle(s, DeepContent[1], DeepContent[2], p))

TipDeep ==
    /\ ExploredDeep
    /\ WholeCall(\E s \in Accounts, i \in DeepIds, v \in Values : tipWriter(s, i, v))

PurchaseDeep ==
    /\ ExploredDeep
    /\ WholeCall(\E s \in Accounts, i \in DeepIds, v \in Values : purchaseArticle(s, i, v))

VoteDeep ==
    /\ ExploredDeep
    /\ WholeCall(\E s \in Accounts, i \in DeepIds, b \in BOOLEAN : voteArticle(s, i, b))

NextDeep == PublishDeep \/ TipDeep \/ PurchaseDeep \/ VoteDeep

SpecDeep == Init /\ [][NextDeep]_vars


\* The read-only functions as calls: any account may ask about any id and any
\* user, at any time; a view returns its value and writes nothing.
\* mutant: the read leaves a grant for the caller behind
StaticCall_Writes(call, result) ==
    /\ lastCall' = call @@ [returned |-> result]
    /\ logs' = <<>>
    /\ hasAccess' = [hasAccess EXCEPT ![call.id][call.sender] = TRUE]
    /\ UNCHANGED <<articleCount, articles, hasVoted, userVote, balance, txCount>>

StaticCall(call, result) ==
    /\ lastCall' = call @@ [returned |-> result]
    /\ logs' = <<>>
    /\ UNCHANGED <<articleCount, articles, hasAccess, hasVoted, userVote,
                   balance, txCount>>

ViewCall(op, sender, articleId, user) ==
    Call(op, sender, articleId, 0, FALSE, "", "", 0) @@ [user |-> user]

\* the account that makes the read calls (no view reads msg.sender)
Readers == {"bob"}

ViewOps == {"checkAccess", "isArticleFree", "getArticleVotes", "hasUserVoted",
            "getUserVote"}

\* A view changes nothing, so a second view in a row sees what the first saw:
\* views are explored after mutating calls, committed or reverted.
ViewsExplored == txCount < MaxCalls /\ lastCall.op \notin ViewOps

CheckAccessView ==
    /\ ViewsExplored
    /\ WholeCall(\E s \in Readers, i \in ArticleIds, u \in Accounts :
           StaticCall(ViewCall("checkAccess", s, i, u), checkAccess(i, u)))

IsArticleFreeView ==
    /\ ViewsExplored
    /\ WholeCall(\E s \in Readers, i \in ArticleIds :
           StaticCall(ViewCall("isArticleFree", s, i, s), isArticleFree(i)))

GetArticleVotesView ==
    /\ ViewsExplored
    /\ WholeCall(\E s \in Readers, i \in ArticleIds :
           StaticCall(ViewCall("getArticleVotes", s, i, s), getArticleVotes(i)))

HasUserVotedView ==
    /\ ViewsExplored
    /\ WholeCall(\E s \in Readers, i \in ArticleIds, u \in Accounts :
           StaticCall(ViewCall("hasUserVoted", s, i, u), hasUserVoted(i, u)))

GetUserVoteView ==
    /\ ViewsExplored
    /\ WholeCall(\E s \in Readers, i \in ArticleIds, u \in Accounts :
           StaticCall(ViewCall("getUserVote", s, i, u), getUserVote(i, u)))

\* The whole calls on article 1 alone, as deep as Spec.
PublishOnOne ==
    /\ Explored
    /\ WholeCall(\E s \in Accounts, p \in Prices :
           publishArticle(s, DeepContent[1], DeepContent[2], p))

TipOnOne ==
    /\ Explored
    /\ WholeCall(\E s \in Accounts, i \in DeepIds, v \in Values : tipWriter(s, i, v))

PurchaseOnOne ==
    /\ Explored
    /\ WholeCall(\E s \in Accounts, i \in DeepIds, v \in Values : purchaseArticle(s, i, v))

VoteOnOne ==
    /\ Explored
    /\ WholeCall(\E s \in Accounts, i \in DeepIds, b \in BOOLEAN : voteArticle(s, i, b))

\* The calls on article 1 with the views between them, also right after a
\* reverted call.
NextViews ==
    \/ PublishOnOne \/ TipOnOne \/ PurchaseOnOne \/ VoteOnOne
    \/ CheckAccessView \/ IsArticleFreeView \/ GetArticleVotesView
    \/ HasUserVotedView \/ GetUserVoteView

SpecViews == Init /\ [][NextViews]_vars


\* ------------------------------------------- the transfer, step by step
\* tipWriter and purchaseArticle pay with address.transfer, which runs the
\* recipient's receive() with a fixed gas stipend before the call goes on to
\* its emit.  A recipient with code can use that gas to call the ledger.
TransferStipend == 2300   \* gas address.transfer forwards
SstoreSentry    == 2300   \* SSTORE fails unless more than this gas is left
CallValueGas    == 9000   \* surcharge of a call that carries value
WarmAccessGas   == 100    \* warm SLOAD, and a call to a warm address
LogGas          == 375    \* LOG, and each topic of it
LogDataGas      == 8      \* each byte of event data
ArticleSlots    == 7      \* storage words of an Article with short strings
MaxNested       == 1      \* ledger calls made by one receive()

\* mutant: the transfer made with call{value: ...}(""), which forwards all gas
GasForwarded_All(amount) == 30000

\* gas the recipient's receive() runs with
GasForwarded(amount) == TransferStipend

\* most gas the recipient can hand to a call of its own (all but 1/64 of
\* what is left after paying for the call)
NestedGas(forwarded, value) ==
    LET left == forwarded - WarmAccessGas
                 - (IF value > 0 THEN CallValueGas ELSE 0)
    IN  IF left <= 0 THEN 0 ELSE left - (left \div 64)

\* least gas a ledger function needs to run to its end: the functions that
\* write storage need to pass the SSTORE sentry, tipWriter copies the record
\* to memory and emits TipSent (three topics, one word of data)
MinGas(op) ==
    IF op = "tipWriter"
    THEN ArticleSlots * WarmAccessGas + LogGas + 3 * LogGas + 32 * LogDataGas
    ELSE SstoreSentry + 1

NestedCallCompletes(op, forwarded, value) ==
    MinGas(op) <= NestedGas(forwarded, value)

\* the ledger's state as a revert restores it
Snapshot ==
    [articleCount |-> articleCount, articles |-> articles,
     hasAccess |-> hasAccess, hasVoted |-> hasVoted, userVote |-> userVote,
     balance |-> balance, txCount |-> txCount]

Frame(call, to, event) ==
    [stage |-> "transfer", call |-> call, to |-> to, event |-> event,
     pre |-> Snapshot, nested |-> 0]

\* tipWriter up to its transfer (lines 33-34)
BeginTip ==
    /\ Explored /\ frame = NoFrame
    /\ \E sender \in Accounts, articleId \in DeepIds, value \in Values :
        /\ value <= balance[sender]
        /\ LET article == articles[articleId]
           IN  frame' = Frame(
                   Call("tipWriter", sender, articleId, value, FALSE, "", "", 0),
                   article.author,
                   [name |-> "TipSent", id |-> articleId, from |-> sender,
                    amount |-> value])
        /\ balance' = ReceiveValue(balance, sender, value)
    /\ UNCHANGED <<articleCount, articles, hasAccess, hasVoted, userVote,
                   logs, txCount, lastCall, clientVars>>

\* purchaseArticle up to its transfer (lines 39-43): the requires, the grant
BeginPurchase ==
    /\ Explored /\ frame = NoFrame
    /\ \E sender \in Accounts, articleId \in DeepIds, value \in Values :
        /\ value <= balance[sender]
        /\ LET article == articles[articleId]
               call    == Call("purchaseArticle", sender, articleId, value,
                               FALSE, "", "", 0)
           IN  IF ~(article.price > 0)
               THEN Revert(call, "Article is free") /\ UNCHANGED frame
               ELSE IF ~PaymentSufficient(value, article.price)
               THEN Revert(call, "Insufficient payment") /\ UNCHANGED frame
               ELSE /\ hasAccess' = GrantAccess(hasAccess, articleId, sender)
                    /\ balance' = ReceiveValue(balance, sender, value)
                    /\ frame' = Frame(call, article.author,
                                      [name |-> "ArticlePurchased",
                                       id |-> articleId, buyer |-> sender])
                    /\ UNCHANGED <<articleCount, articles, hasVoted, userVote,
                                   logs, txCount, lastCall>>
    /\ UNCHANGED clientVars

\* the nested call ran out of gas: its frame reverts, nothing is written
OutOfGas(call) ==
    /\ lastCall' = [call EXCEPT !.status = "out of gas"]
    /\ logs' = <<>>
    /\ UNCHANGED <<articleCount, articles, hasAccess, hasVoted, userVote,
                   balance, txCount>>

\* The recipient's receive() calls a function of the ledger with the gas it
\* was given; the call runs as a whole call would if the gas suffices.
ReceiveHook ==
    /\ frame.stage = "transfer"
    /\ frame.to \in Reentrant
    /\ frame.nested < MaxNested
    /\ frame' = [frame EXCEPT !.nested = @ + 1]
    /\ LET gas == GasForwarded(frame.call.value)
       IN  \/ \E p \in Prices :
                IF NestedCallCompletes("publishArticle", gas, 0)
                THEN publishArticle(frame.to, DeepContent[1], DeepContent[2], p)
                ELSE OutOfGas(Call("publishArticle", frame.to, 0, 0, FALSE,
                                   DeepContent[1], DeepContent[2], p))
           \/ \E i \in DeepIds, b \in BOOLEAN :
                IF NestedCallCompletes("voteArticle", gas, 0)
                THEN voteArticle(frame.to, i, b)
                ELSE OutOfGas(Call("voteArticle", frame.to, i, 0, b, "", "", 0))
           \/ \E i \in DeepIds, v \in Values :
                IF NestedCallCompletes("purchaseArticle", gas, v)
                THEN purchaseArticle(frame.to, i, v)
                ELSE OutOfGas(Call("purchaseArticle", frame.to, i, v, FALSE,
                                   "", "", 0))
           \/ \E i \in DeepIds, v \in Values :
                IF NestedCallCompletes("tipWriter", gas, v)
                THEN tipWriter(frame.to, i, v)
                ELSE OutOfGas(Call("tipWriter", frame.to, i, v, FALSE, "", "", 0))
    /\ UNCHANGED clientVars

\* the recipient took the funds: the emit, and the call is committed
EndTransfer ==
    /\ frame.stage = "transfer"
    /\ TransferSucceeds(frame.to)
    /\ balance' = Transfer(balance, frame.to, frame.call.value)
    /\ logs' = Emit(frame.event)
    /\ lastCall' = frame.call
    /\ txCount' = txCount + 1
    /\ frame' = NoFrame
    /\ UNCHANGED <<articleCount, articles, hasAccess, hasVoted, userVote,
                   clientVars>>

\* the recipient's code reverted (no payable receive, or a receive() that
\* gave up): transfer throws and the whole call is undone, with whatever was
\* done inside it
FailTransfer ==
    /\ frame.stage = "transfer"
    /\ frame.to \in NonPayable \cup Reentrant
    /\ articleCount' = frame.pre.articleCount
    /\ articles' = frame.pre.articles
    /\ hasAccess' = frame.pre.hasAccess
    /\ hasVoted' = frame.pre.hasVoted
    /\ userVote' = frame.pre.userVote
    /\ balance' = frame.pre.balance
    /\ txCount' = frame.pre.txCount
    /\ lastCall' = [frame.call EXCEPT !.status = "transfer failed"]
    /\ logs' = <<>>
    /\ frame' = NoFrame
    /\ UNCHANGED clientVars

NextReentrant ==
    \/ PublishOnOne \/ VoteOnOne
    \/ BeginTip \/ BeginPurchase \/ ReceiveHook \/ EndTransfer \/ FailTransfer

SpecReentrant == Init /\ [][NextReentrant]_vars


\* ------------------------------------------- the client's WalletProvider
\* contexts/WalletContext.tsx: the React state account / provider / contract,
\* the async functions connectWallet and checkConnection (one step per
\* await), and the browser wallet (window.ethereum) they talk to.
MaxPending      == 2                   \* wallet events not yet delivered
WalletAddresses == {"alice", "carol"}  \* accounts of the browser wallet
BrowserProvider == "BrowserProvider"   \* new ethers.BrowserProvider(...)

\* new ethers.Contract(CONTRACT_ADDRESS, CONTRACT_ABI, signer): address and
\* ABI are fixed, so a contract object is told by its signer's address
Contract(signer) == signer

ledgerVars == <<articleCount, articles, hasAccess, hasVoted, userVote,
                balance, logs, txCount, lastCall, frame>>

\* the wallet announces its accounts to the page: accountsChanged(accounts)
Announce(accounts) == walletEvents' = Append(walletEvents, accounts)

\* the user picks an account in the wallet (connecting the site from the
\* wallet, or switching to another account)
WalletSelect ==
    /\ Len(walletEvents) < MaxPending
    /\ \E a \in WalletAddresses \ {walletAccount} :
           /\ walletAccount' = a
           /\ Announce(<<a>>)
    /\ UNCHANGED <<account, provider, contract, isLoading, connecting, checking>>
    /\ UNCHANGED ledgerVars

\* the user locks the wallet or disconnects the site in the wallet
WalletRevoke ==
    /\ Len(walletEvents) < MaxPending
    /\ walletAccount # Null
    /\ walletAccount' = Null
    /\ Announce(<<>>)
    /\ UNCHANGED <<account, provider, contract, isLoading, connecting, checking>>
    /\ UNCHANGED ledgerVars

\* the three setState calls of one synchronous block (one render)
SetConnection(address) ==
    /\ account' = address
    /\ provider' = BrowserProvider
    /\ contract' = Contract(address)

disconnectWallet ==
    /\ account' = Null
    /\ provider' = Null
    /\ contract' = Null

\* the click on "Connect": connectWallet up to its first await
ConnectClick ==
    /\ connecting.pc = "done"
    /\ connecting' = [pc |-> "eth_requestAccounts", address |-> Null]
    /\ UNCHANGED <<walletAccount, walletEvents, account, provider, contract,
                   isLoading, checking>>
    /\ UNCHANGED ledgerVars

\* eth_requestAccounts: answered at once when the site is connected, else
\* the wallet asks the user, who approves with an account or rejects
RequestAccounts ==
    /\ connecting.pc = "eth_requestAccounts"
    /\ \/ /\ walletAccount # Null
          /\ connecting' = [connecting EXCEPT !.pc = "getSigner"]
          /\ UNCHANGED <<walletAccount, walletEvents>>
       \/ /\ walletAccount = Null
          /\ Len(walletEvents) < MaxPending
          /\ \E a \in WalletAddresses :
                 /\ walletAccount' = a
                 /\ Announce(<<a>>)
          /\ connecting' = [connecting EXCEPT !.pc = "getSigner"]
       \/ /\ walletAccount = Null
          /\ connecting' = NotRunning          \* rejected: the catch block
          /\ UNCHANGED <<walletAccount, walletEvents>>
    /\ UNCHANGED <<account, provider, contract, isLoading, checking>>
    /\ UNCHANGED ledgerVars

\* getSigner / getAddress: the signer is bound to the account the wallet
\* exposes at this moment; none exposed throws
GetSigner ==
    IF walletAccount = Null
    THEN [pc |-> "throw", address |-> Null]
    ELSE [pc |-> "setState", address |-> walletAccount]

ConnectGetSigner ==
    /\ connecting.pc = "getSigner"
    /\ connecting' = IF GetSigner.pc = "throw" THEN NotRunning
                     ELSE GetSigner
    /\ UNCHANGED <<walletAccount, walletEvents, account, provider, contract,
                   isLoading, checking>>
    /\ UNCHANGED ledgerVars

ConnectSetState ==
    /\ connecting.pc = "setState"
    /\ SetConnection(connecting.address)
    /\ connecting' = NotRunning
    /\ UNCHANGED <<walletAccount, walletEvents, isLoading, checking>>
    /\ UNCHANGED ledgerVars

\* the click on "Disconnect" (the pages behind PrivateRoute show it)
DisconnectClick ==
    /\ account # Null
    /\ disconnectWallet
    /\ UNCHANGED <<walletAccount, walletEvents, isLoading, connecting, checking>>
    /\ UNCHANGED ledgerVars

\* checkConnection, started by the effect on mount: eth_accounts
CheckAccounts ==
    /\ checking.pc = "start"
    /\ IF walletAccount = Null
       THEN /\ checking' = NotRunning
            /\ isLoading' = FALSE
       ELSE /\ checking' = [checking EXCEPT !.pc = "getSigner"]
            /\ UNCHANGED isLoading
    /\ UNCHANGED <<walletAccount, walletEvents, account, provider, contract,
                   connecting>>
    /\ UNCHANGED ledgerVars

CheckGetSigner ==
    /\ checking.pc = "getSigner"
    /\ IF GetSigner.pc = "throw"
       THEN /\ checking' = NotRunning
            /\ isLoading' = FALSE
       ELSE /\ checking' = GetSigner
            /\ UNCHANGED isLoading
    /\ UNCHANGED <<walletAccount, walletEvents, account, provider, contract,
                   connecting>>
    /\ UNCHANGED ledgerVars

CheckSetState ==
    /\ checking.pc = "setState"
    /\ SetConnection(checking.address)
    /\ isLoading' = FALSE
    /\ checking' = NotRunning
    /\ UNCHANGED <<walletAccount, walletEvents, connecting>>
    /\ UNCHANGED ledgerVars

\* the listener registered by the effect: only an empty list is acted on
AccountsChanged ==
    /\ walletEvents # <<>>
    /\ walletEvents' = Tail(walletEvents)
    /\ LET accounts == Head(walletEvents)
       IN  IF Len(accounts) = 0
           THEN disconnectWallet
           ELSE UNCHANGED <<account, provider, contract>>
    /\ UNCHANGED <<walletAccount, isLoading, connecting, checking>>
    /\ UNCHANGED ledgerVars

NextWallet ==
    \/ WalletSelect \/ WalletRevoke
    \/ ConnectClick \/ RequestAccounts \/ ConnectGetSigner \/ ConnectSetState
    \/ DisconnectClick
    \/ CheckAccounts \/ CheckGetSigner \/ CheckSetState
    \/ AccountsChanged

SpecWallet == Init /\ [][NextWallet]_vars

\* ================================================================ claims
Published(i) == i \in 1..articleCount

\* the step just taken was this call (lastCall' is written by every action)
IsPurchase(b, i) ==
    /\ lastCall'.op = "purchaseArticle"
    /\ lastCall'.sender = b
    /\ lastCall'.id = i

IsVote(a, i) ==
    /\ lastCall'.op = "voteArticle"
    /\ lastCall'.sender = a
    /\ lastCall'.id = i

Committed == lastCall'.status = "ok"

NothingChanged ==
    /\ UNCHANGED <<articleCount, articles, hasAccess, hasVoted, userVote, balance>>
    /\ logs' = <<>>

\* ---- C1
\* C1 as stated: on a published paid article every purchaseArticle call with
\* value >= price commits, and the buyer's checkAccess is true from then on.
C1_Original ==
    [][\A b \in Accounts, i \in ArticleIds :
         (Published(i) /\ articles[i].price > 0) =>
            /\ (IsPurchase(b, i) /\ lastCall'.value >= articles[i].price)
                  => (Committed /\ checkAccess(i, b)')
            /\ hasAccess[i][b] => checkAccess(i, b)'
      ]_vars

\* C1 amended: on a published paid article a purchaseArticle call with
\* value >= price commits whenever the transfer to the author completes (it
\* reverts when the author's address rejects the funds); a committed purchase
\* makes checkAccess(id, buyer) true and it stays true in every later state.
C1_PurchaseGrantsPermanentAccess ==
    [][\A b \in Accounts, i \in ArticleIds :
         (Published(i) /\ articles[i].price > 0) =>
            /\ (IsPurchase(b, i) /\ lastCall'.value >= articles[i].price)
                  => /\ Committed <=> TransferSucceeds(articles[i].author)
                     /\ Committed => checkAccess(i, b)'
            /\ hasAccess[i][b] => checkAccess(i, b)'
      ]_vars

\* a buyer holds a grant and a further call has been committed since
C1_Witness ==
    \E b \in Accounts, i \in ArticleIds :
        /\ Published(i) /\ articles[i].price > 0 /\ hasAccess[i][b]
        /\ checkAccess(i, b)
        /\ lastCall.op # "purchaseArticle" /\ lastCall.status = "ok"

\* ---- C2
\* C2: on a published paid article a purchaseArticle call with value < price
\* reverts with 'Insufficient payment'; a buyer without a grant still has
\* checkAccess = false afterwards and no balance (the author's included) moves.
C2_UnderpaidPurchaseRejected ==
    [][\A b \in Accounts, i \in ArticleIds :
         (/\ Published(i) /\ articles[i].price > 0
          /\ IsPurchase(b, i) /\ lastCall'.value < articles[i].price)
         => /\ lastCall'.status = "Insufficient payment"
            /\ hasAccess' = hasAccess
            /\ (~hasAccess[i][b] => ~checkAccess(i, b)')
            /\ balance' = balance
            /\ logs' = <<>>
      ]_vars

\* an underpaying purchase with a positive value was rejected
C2_Witness ==
    /\ lastCall.op = "purchaseArticle"
    /\ lastCall.value > 0
    /\ lastCall.status = "Insufficient payment"
    /\ Published(lastCall.id)
    /\ lastCall.value < articles[lastCall.id].price
    /\ ~checkAccess(lastCall.id, lastCall.sender)

\* ---- C3
C3_FreeArticleStep ==
    \A b \in Accounts, i \in ArticleIds :
        (Published(i) /\ articles[i].price = 0 /\ IsPurchase(b, i))
        => (lastCall'.status = "Article is free" /\ NothingChanged)

C3_FreeArticleState ==
    \A a \in Accounts, i \in ArticleIds :
        (Published(i) /\ articles[i].price = 0)
        => (checkAccess(i, a) /\ isArticleFree(i))

\* C3: for every published free article, checkAccess is true for every account
\* and isArticleFree is true in every state, and every purchaseArticle call on
\* it (any value) reverts with 'Article is free' and changes nothing.
C3_FreeArticlesOpenAndUnpurchasable ==
    []C3_FreeArticleState /\ [][C3_FreeArticleStep]_vars

\* a purchase with a positive value was attempted on a free article
C3_Witness ==
    /\ lastCall.op = "purchaseArticle"
    /\ lastCall.status = "Article is free"
    /\ lastCall.value > 0
    /\ Published(lastCall.id)
    /\ checkAccess(lastCall.id, lastCall.sender)

\* ---- C4
\* C4: a committed purchaseArticle moves exactly the attached value from the
\* caller to the article's author in the step that sets the grant; the
\* contract's balance and every other balance are as before (net zero when
\* the caller is the author).
C4_PurchaseForwardsWholeValue ==
    [][\A b \in Accounts, i \in ArticleIds :
         (IsPurchase(b, i) /\ Committed)
         => /\ balance' = [balance EXCEPT ![b] = @ - lastCall'.value,
                                          ![articles[i].author] = @ + lastCall'.value]
            /\ balance'[This] = balance[This]
            /\ hasAccess'[i][b]
      ]_vars

\* an overpaying purchase from a buyer who is not the author has committed
C4_Witness ==
    /\ lastCall.op = "purchaseArticle" /\ lastCall.status = "ok"
    /\ lastCall.value > articles[lastCall.id].price
    /\ lastCall.sender # articles[lastCall.id].author
    /\ balance[articles[lastCall.id].author] = InitBalance + lastCall.value

\* ---- C5
\* C5: when the author cannot receive the transfer, a tipWriter call and a
\* purchaseArticle call that passed its requires revert: hasAccess and every
\* balance are at their pre-call values and no event is emitted.
C5_FailedTransferRollsBack ==
    [][\A s \in Accounts, i \in ArticleIds :
         (/\ lastCall'.sender = s /\ lastCall'.id = i
          /\ ~TransferSucceeds(articles[i].author)
          /\ \/ lastCall'.op = "tipWriter"
             \/ /\ lastCall'.op = "purchaseArticle"
                /\ articles[i].price > 0
                /\ lastCall'.value >= articles[i].price)
         => /\ lastCall'.status = "transfer failed"
            /\ hasAccess' = hasAccess
            /\ balance' = balance
            /\ logs' = <<>>
            /\ UNCHANGED <<articleCount, articles, hasVoted, userVote>>
      ]_vars

\* a fully paid purchase from an author that cannot be paid was rolled back
C5_Witness ==
    /\ lastCall.op = "purchaseArticle"
    /\ lastCall.status = "transfer failed"
    /\ articles[lastCall.id].author \in NonPayable
    /\ ~hasAccess[lastCall.id][lastCall.sender]
    /\ logs = <<>>
\* ---- C6
\* C6: once hasVoted[id][a] is true it stays true, userVote[id][a] keeps its
\* value, and every later voteArticle(id, .) call by a reverts without
\* changing either counter of the article.
C6_VoteIsTerminal ==
    [][\A a \in Accounts, i \in ArticleIds :
         hasVoted[i][a] =>
            /\ hasVoted'[i][a]
            /\ userVote'[i][a] = userVote[i][a]
            /\ IsVote(a, i) =>
                  /\ ~Committed
                  /\ articles'[i].upvotes = articles[i].upvotes
                  /\ articles'[i].downvotes = articles[i].downvotes
      ]_vars

\* a second vote, in the other direction, was made and rejected
C6_Witness ==
    /\ lastCall.op = "voteArticle"
    /\ lastCall.status = "Already voted on this article"
    /\ hasVoted[lastCall.id][lastCall.sender]
    /\ userVote[lastCall.id][lastCall.sender] # lastCall.isUpvote

\* ---- C7
\* C7 as stated: voteArticle on a published paid article by an account without
\* a grant reverts with 'Must purchase article to vote' and changes nothing;
\* once the account has purchased the article the same call commits (taken
\* here in the states where no vote has been counted on the article since its
\* publication, so that the account cannot have voted on the article itself).
C7_VoteNeedsPurchaseThenSucceeds ==
    [][\A a \in Accounts, i \in ArticleIds :
         (Published(i) /\ articles[i].price > 0 /\ IsVote(a, i)) =>
            /\ ~hasAccess[i][a] =>
                  (lastCall'.status = "Must purchase article to vote" /\ NothingChanged)
            /\ (hasAccess[i][a] /\ articles[i].upvotes + articles[i].downvotes = 0)
                  => Committed
      ]_vars

\* ---- C8
\* C8: a committed voteArticle(id, isUpvote) by a sets hasVoted[id][a], sets
\* userVote[id][a] to isUpvote, adds exactly 1 to the chosen counter of article
\* id and leaves its other counter and every other article as they were.
C8_VoteCountsOnce ==
    [][\A a \in Accounts, i \in ArticleIds :
         (IsVote(a, i) /\ Committed) =>
            /\ hasVoted'[i][a]
            /\ userVote'[i][a] = lastCall'.isUpvote
            /\ articles'[i] = IF lastCall'.isUpvote
                              THEN [articles[i] EXCEPT !.upvotes = @ + 1]
                              ELSE [articles[i] EXCEPT !.downvotes = @ + 1]
            /\ \A j \in ArticleIds \ {i} : articles'[j] = articles[j]
      ]_vars

\* a downvote was counted on the second of two published articles
C8_Witness ==
    /\ lastCall.op = "voteArticle" /\ lastCall.status = "ok"
    /\ ~lastCall.isUpvote
    /\ articleCount = 2 /\ lastCall.id = 2
    /\ articles[2].downvotes = 1 /\ articles[2].upvotes = 0
    /\ hasVoted[2][lastCall.sender]

\* ---- C9
\* C9: a committed publishArticle(title, ipfsHash, price) raises articleCount
\* by exactly 1 and stores under the id pre-call articleCount + 1 the record
\* (that id, caller, title, ipfsHash, price, 0, 0); every other record is
\* unchanged.
C9_PublishStoresNewRecord ==
    [][(lastCall'.op = "publishArticle" /\ Committed) =>
         LET newId == articleCount + 1
         IN  /\ articleCount' = newId
             /\ articles'[newId] =
                   [id |-> newId, author |-> lastCall'.sender,
                    title |-> lastCall'.title, ipfsHash |-> lastCall'.ipfsHash,
                    price |-> lastCall'.price, upvotes |-> 0, downvotes |-> 0]
             /\ \A j \in ArticleIds \ {newId} : articles'[j] = articles[j]
      ]_vars

\* a second, paid article with non-empty strings has just been published
C9_Witness ==
    /\ lastCall.op = "publishArticle" /\ lastCall.status = "ok"
    /\ articleCount = 2
    /\ articles[2].author = lastCall.sender
    /\ articles[2].title = "A" /\ articles[2].ipfsHash = "Qm1"
    /\ articles[2].price = 2

\* ---- C10
C10_DenseIdsState ==
    /\ \A i \in ArticleIds :
          articles[i].id = IF i \in 1..articleCount THEN i ELSE 0
    /\ lastCall.op = "constructor" => articleCount = 0

C10_DenseIdsStep ==
    articleCount' = articleCount +
        (IF lastCall'.op = "publishArticle" /\ Committed THEN 1 ELSE 0)

\* C10: in every state the records of ids 1..articleCount carry their own id
\* and every other record carries id 0; articleCount is 0 after construction
\* and grows by exactly 1 in a committed publishArticle and in no other step.
C10_IdsAreDense == []C10_DenseIdsState /\ [][C10_DenseIdsStep]_vars

\* two articles are published and a vote went to an id before its publication
C10_Witness ==
    /\ articleCount = 2
    /\ articles[1].id = 1 /\ articles[2].id = 2 /\ articles[0].id = 0
    /\ \E a \in Accounts : hasVoted[2][a]
    /\ lastCall.op = "publishArticle"
\* ---- C11
\* C11: hasAccess[id][a] turns from false to true only in a committed
\* purchaseArticle(id) made by a with value >= price(id) > 0, never turns from
\* true to false, and no publishArticle, tipWriter or voteArticle step changes
\* any hasAccess entry.
C11_GrantOnlyByOwnPurchase ==
    [][/\ \A a \in Accounts, i \in ArticleIds :
            /\ hasAccess[i][a] => hasAccess'[i][a]
            /\ (~hasAccess[i][a] /\ hasAccess'[i][a]) =>
                  /\ IsPurchase(a, i) /\ Committed
                  /\ articles[i].price > 0
                  /\ lastCall'.value >= articles[i].price
       /\ lastCall'.op \in {"publishArticle", "tipWriter", "voteArticle"}
             => hasAccess' = hasAccess
      ]_vars

\* one account has just bought a grant that the other accounts do not hold
C11_Witness ==
    /\ lastCall.op = "purchaseArticle" /\ lastCall.status = "ok"
    /\ hasAccess[lastCall.id][lastCall.sender]
    /\ \A a \in Accounts \ {lastCall.sender} : ~hasAccess[lastCall.id][a]
    /\ \E j \in ArticleIds \ {lastCall.id} : Published(j) /\ articles[j].price > 0

\* ---- C12
\* C12: a reverted call (purchase of a free article, underpaid purchase, vote
\* on a paid article without a grant, duplicate vote, failed transfer) leaves
\* articleCount, every article record, every hasAccess, hasVoted and userVote
\* entry and every balance as they were before the call.
C12_RevertChangesNothing ==
    [][lastCall'.status # "ok" =>
          /\ lastCall'.status \in
                {"Article is free", "Insufficient payment",
                 "Must purchase article to vote", "Already voted on this article",
                 "transfer failed"}
          /\ UNCHANGED <<articleCount, articles, hasAccess, hasVoted, userVote, balance>>
      ]_vars

\* a vote by an account with funds but no grant was rejected on a paid article
C12_Witness ==
    /\ lastCall.op = "voteArticle"
    /\ lastCall.status = "Must purchase article to vote"
    /\ ~hasAccess[lastCall.id][lastCall.sender]
    /\ ~hasVoted[lastCall.id][lastCall.sender]
    /\ articles[lastCall.id].upvotes + articles[lastCall.id].downvotes = 0
    /\ \A h \in Holders : balance[h] = IF h \in Accounts THEN InitBalance ELSE 0

\* ---- C13
\* C13: the id, author, title, ipfsHash and price of a published article are
\* the same after every step (tip, purchase, vote or later publish).
C13_PublishedFieldsImmutable ==
    [][\A i \in ArticleIds :
         Published(i) =>
            /\ articles'[i].id = articles[i].id
            /\ articles'[i].author = articles[i].author
            /\ articles'[i].title = articles[i].title
            /\ articles'[i].ipfsHash = articles[i].ipfsHash
            /\ articles'[i].price = articles[i].price
      ]_vars

\* a paid article has been bought and voted on and still carries its fields
C13_Witness ==
    \E i \in ArticleIds, a \in Accounts :
        /\ Published(i) /\ articles[i].price > 0
        /\ articles[i].id = i /\ articles[i].author \in Accounts
        /\ articles[i].title = "A"
        /\ hasAccess[i][a] /\ hasVoted[i][a]
        /\ articles[i].upvotes + articles[i].downvotes = 1
\* ---- C14
\* C14: for every article id, getArticleVotes(id) is (0, 0) in the initial
\* state and across every step neither upvotes(id) nor downvotes(id) becomes
\* smaller than it was.
C14_VotesMonotonic ==
    /\ \A i \in ArticleIds : getArticleVotes(i) = <<0, 0>>
    /\ [][\A i \in ArticleIds :
            /\ getArticleVotes(i)'[1] >= getArticleVotes(i)[1]
            /\ getArticleVotes(i)'[2] >= getArticleVotes(i)[2]
         ]_vars

C16_TipOnlyMovesValue ==
    [][\A s \in Accounts, i \in ArticleIds :
         (/\ lastCall'.op = "tipWriter" /\ lastCall'.sender = s /\ lastCall'.id = i
          /\ Committed)
         => /\ UNCHANGED <<articleCount, articles, hasAccess, hasVoted, userVote>>
            /\ balance' = [balance EXCEPT ![s] = @ - lastCall'.value,
                                          ![articles[i].author] = @ + lastCall'.value]
            /\ logs' = <<[name |-> "TipSent", id |-> i, from |-> s,
                          amount |-> lastCall'.value]>>
      ]_vars

\* a tip of positive value from a reader has reached the author of a
\* published article
C16_Witness ==
    /\ lastCall.op = "tipWriter" /\ lastCall.status = "ok"
    /\ lastCall.value > 0
    /\ Published(lastCall.id)
    /\ lastCall.sender # articles[lastCall.id].author
    /\ balance[lastCall.sender] = InitBalance - lastCall.value
    /\ balance[articles[lastCall.id].author] = InitBalance + lastCall.value
    /\ balance[This] = 0
\* ---- C17
\* C17: for every id that is not published (0 or above articleCount) and
\* every account, checkAccess and isArticleFree return true; for a published
\* article checkAccess(id, a) equals (price(id) = 0 or hasAccess[id][a]).
C17_ViewsOnUnpublishedIds ==
    \A i \in ArticleIds, a \in Accounts :
        /\ ~Published(i) => (checkAccess(i, a) /\ isArticleFree(i))
        /\ Published(i) =>
              (checkAccess(i, a) <=> (articles[i].price = 0 \/ hasAccess[i][a]))

\* one paid article with a buyer and a non-buyer, and a vote already recorded
\* against the next, unpublished id
C17_Witness ==
    /\ articleCount = 1 /\ articles[1].price > 0
    /\ \E a, b \in Accounts : checkAccess(1, a) /\ ~checkAccess(1, b)
    /\ \E a \in Accounts : hasVoted[2][a]
    /\ isArticleFree(2) /\ isArticleFree(0) /\ ~isArticleFree(1)

\* ---- C18
\* C18: publishArticle has no failing precondition: in every reachable state
\* with an id left to assign, for every caller, every title and ipfsHash
\* (empty strings included) and every price, the call can be made and commits.
C18_PublishAlwaysCommits ==
    \A s \in Accounts, c \in Contents, p \in Prices :
        articleCount < MaxArticles =>
            ENABLED (publishArticle(s, c[1], c[2], p) /\ lastCall'.status = "ok")

\* a publish with empty title and hash has committed on an id against which a
\* vote had been recorded before
C18_Witness ==
    /\ lastCall.op = "publishArticle" /\ lastCall.status = "ok"
    /\ lastCall.title = "" /\ lastCall.ipfsHash = ""
    /\ articles[articleCount].id = articleCount
    /\ articles[articleCount].author = lastCall.sender
    /\ \E a \in Accounts : hasVoted[articleCount][a]

\* ---- C19
\* C19: every committed call emits exactly one event of its own kind carrying
\* the call's data (ArticlePublished(new id, caller, title, ipfsHash),
\* TipSent(id, caller, value), ArticlePurchased(id, caller),
\* ArticleVoted(id, caller, isUpvote)) and a reverted call emits none.
C19_OneEventPerCommittedCall ==
    [][LET c == lastCall'
       IN  IF c.status # "ok" THEN logs' = <<>>
           ELSE /\ Len(logs') = 1
                /\ logs'[1] =
                     CASE c.op = "publishArticle" ->
                            [name |-> "ArticlePublished", id |-> articleCount',
                             author |-> c.sender, title |-> c.title,
                             ipfsHash |-> c.ipfsHash]
                       [] c.op = "tipWriter" ->
                            [name |-> "TipSent", id |-> c.id, from |-> c.sender,
                             amount |-> c.value]
                       [] c.op = "purchaseArticle" ->
                            [name |-> "ArticlePurchased", id |-> c.id,
                             buyer |-> c.sender]
                       [] c.op = "voteArticle" ->
                            [name |-> "ArticleVoted", id |-> c.id,
                             voter |-> c.sender, isUpvote |-> c.isUpvote]
                /\ c.op = "publishArticle" => articleCount' = articleCount + 1
      ]_vars

\* the receipt of a committed upvote is its single ArticleVoted event
C19_Witness ==
    /\ lastCall.op = "voteArticle" /\ lastCall.status = "ok" /\ lastCall.isUpvote
    /\ Published(lastCall.id)
    /\ logs = <<[name |-> "ArticleVoted", id |-> lastCall.id,
                 voter |-> lastCall.sender, isUpvote |-> TRUE]>>

\* ---- C20
\* C20: getUserVote(id, a) is false for every account that has not voted on
\* id: userVote[id][a] = true implies hasVoted[id][a] = true.
C20_UserVoteImpliesHasVoted ==
    \A i \in ArticleIds, a \in Accounts :
        /\ getUserVote(i, a) => hasUserVoted(i, a)
        /\ ~hasUserVoted(i, a) => ~getUserVote(i, a)

\* on one article an upvoter, a downvoter and an account that has not voted
C20_Witness ==
    \E i \in ArticleIds, a, b, c \in Accounts :
        /\ Published(i)
        /\ hasUserVoted(i, a) /\ getUserVote(i, a)
        /\ hasUserVoted(i, b) /\ ~getUserVote(i, b)
        /\ ~hasUserVoted(i, c) /\ ~getUserVote(i, c)
\* ---- C21
\* C21: a call of checkAccess, isArticleFree, getArticleVotes, hasUserVoted or
\* getUserVote does not fail, leaves articleCount, the article records, every
\* hasAccess, hasVoted and userVote entry and every balance unchanged, emits
\* nothing, and returns the value given by the state in which it is made (the
\* state left by the last committed mutating call).
C21_ViewsArePureReads ==
    [][LET c == lastCall'
       IN  c.op \in ViewOps =>
             /\ c.status = "ok"
             /\ UNCHANGED <<articleCount, articles, hasAccess, hasVoted,
                            userVote, balance, txCount>>
             /\ logs' = <<>>
             /\ c.returned =
                  CASE c.op = "checkAccess" ->
                         (articles[c.id].price = 0 \/ hasAccess[c.id][c.user])
                    [] c.op = "isArticleFree" -> (articles[c.id].price = 0)
                    [] c.op = "getArticleVotes" ->
                         <<articles[c.id].upvotes, articles[c.id].downvotes>>
                    [] c.op = "hasUserVoted" -> hasVoted[c.id][c.user]
                    [] c.op = "getUserVote" -> userVote[c.id][c.user]
      ]_vars

\* after a publish and a purchase, checkAccess has answered false for an
\* account without a grant on an article another account has bought
C21_Witness ==
    /\ lastCall.op = "checkAccess" /\ lastCall.status = "ok"
    /\ lastCall.returned = FALSE
    /\ Published(lastCall.id) /\ articles[lastCall.id].price > 0
    /\ \E b \in Accounts : hasAccess[lastCall.id][b]
    /\ txCount = 2
\* ---- C22
\* C22: for every id, published or not, and every account, once
\* checkAccess(id, a) is true it is true after every later step.
C22_AccessMonotonic ==
    [][\A i \in ArticleIds, a \in Accounts :
         checkAccess(i, a) => checkAccess(i, a)'
      ]_vars

\* ---- C23
\* C23: in every reachable state and for every id, upvotes(id) is the number
\* of accounts with hasVoted[id][a] and userVote[id][a] = true, and
\* downvotes(id) the number with hasVoted[id][a] and userVote[id][a] = false.
C23_CountersMatchRecords ==
    \A i \in ArticleIds :
        /\ articles[i].upvotes =
              Cardinality({a \in Accounts : hasVoted[i][a] /\ userVote[i][a]})
        /\ articles[i].downvotes =
              Cardinality({a \in Accounts : hasVoted[i][a] /\ ~userVote[i][a]})

\* ---- C24
\* C24: in every reachable state a recorded vote on a paid article belongs to
\* a purchaser: hasVoted[id][a] and price(id) > 0 imply hasAccess[id][a].
C24_VotersOfPaidArticlesPurchased ==
    \A i \in ArticleIds, a \in Accounts :
        (hasVoted[i][a] /\ articles[i].price > 0) => hasAccess[i][a]

\* ---- C25
\* C25: in every reachable state, for every id above articleCount the record
\* articles[id] is the all-zero record and hasVoted[id][a], userVote[id][a]
\* and hasAccess[id][a] are false for every account.
C25_NoStateForUnpublishedIds ==
    \A i \in ArticleIds :
        i > articleCount =>
            /\ articles[i] = DefaultArticle
            /\ \A a \in Accounts :
                  ~hasVoted[i][a] /\ ~userVote[i][a] /\ ~hasAccess[i][a]
\* ---- C26
\* C26: the value attached to a committed tipWriter(id) or
\* purchaseArticle(id) is credited to the account that published article id,
\* and no committed call on any id, published or not, credits value to the
\* zero address.
C26_ValueGoesToPublisher ==
    [][\A s \in Accounts, i \in ArticleIds :
         (/\ lastCall'.op \in {"tipWriter", "purchaseArticle"}
          /\ lastCall'.sender = s /\ lastCall'.id = i
          /\ Committed)
         => /\ balance'[ZeroAddress] = balance[ZeroAddress]
            /\ lastCall'.value > 0 =>
                  /\ Published(i)
                  /\ articles[i].author \in Accounts
                  /\ balance' = [balance EXCEPT ![s] = @ - lastCall'.value,
                                                ![articles[i].author] = @ + lastCall'.value]
      ]_vars
\* ---- C28
\* C28: after every call, committed or reverted, the contract's own balance
\* is zero, as it was at deployment, and the sum of the balances of all
\* addresses is what it was at deployment.
RECURSIVE SumOf(_, _)
SumOf(bal, holders) ==
    IF holders = {} THEN 0
    ELSE LET h == CHOOSE x \in holders : TRUE
         IN  bal[h] + SumOf(bal, holders \ {h})

C28_ValueConserved ==
    /\ balance[This] = 0
    /\ SumOf(balance, Holders) = Cardinality(Accounts) * InitBalance
    /\ \A h \in Holders : balance[h] >= 0

\* value has reached address(0) through a tip on an unpublished id, and the
\* last call was rolled back because its recipient rejected the transfer
C28_Witness ==
    /\ lastCall.status = "transfer failed" /\ lastCall.value > 0
    /\ balance[ZeroAddress] > 0
    /\ balance[lastCall.sender] + lastCall.value <= InitBalance
\* ---- C29
\* C29: for a published article with price > 0 whose author holds no grant,
\* checkAccess(id, author) is false and a voteArticle(id, .) by the author
\* reverts; the author's grant appears only in a committed purchaseArticle(id)
\* of their own; meanwhile the client's loadArticle gives the author access.
C29_AuthorHasNoImplicitAccess ==
    [][\A i \in ArticleIds, a \in Accounts :
         (/\ Published(i) /\ articles[i].price > 0
          /\ articles[i].author = a
          /\ ~hasAccess[i][a])
         => /\ ~checkAccess(i, a)
            /\ loadArticle(i, a)
            /\ IsVote(a, i) =>
                  /\ lastCall'.status = "Must purchase article to vote"
                  /\ NothingChanged
            /\ hasAccess'[i][a] =>
                  /\ IsPurchase(a, i) /\ Committed
                  /\ lastCall'.value >= articles[i].price
      ]_vars

\* the author's vote on their own paid article has been rejected while the
\* client shows them the content
C29_Witness ==
    /\ lastCall.op = "voteArticle"
    /\ lastCall.status = "Must purchase article to vote"
    /\ Published(lastCall.id) /\ articles[lastCall.id].price > 0
    /\ articles[lastCall.id].author = lastCall.sender
    /\ ~checkAccess(lastCall.id, lastCall.sender)
    /\ loadArticle(lastCall.id, lastCall.sender)
    /\ \E b \in Accounts \ {lastCall.sender} :
          hasAccess[lastCall.id][b] /\ loadArticle(lastCall.id, b)
\* ---- C27
\* C27: while purchaseArticle or tipWriter is transferring value, a call the
\* receiving author's code makes back into publishArticle, voteArticle,
\* purchaseArticle or tipWriter writes nothing, and when the outer call ends
\* the ledger is in the state the whole call produces from the state it
\* started in (committed), or in that starting state (reverted): no state
\* between two calls differs from what whole calls in a serial order give.
C27_CallsAreAtomic ==
    [][frame.stage = "transfer" =>
         LET pre  == frame.pre
             call == frame.call
         IN  \/ /\ frame'.stage = "transfer"
                /\ frame'.nested = frame.nested + 1
                /\ lastCall'.status # "ok"
                /\ lastCall'.sender = frame.to
                /\ UNCHANGED <<articleCount, articles, hasAccess, hasVoted,
                               userVote, balance, txCount>>
             \/ /\ frame' = NoFrame
                /\ lastCall' = call
                /\ articleCount' = pre.articleCount
                /\ articles' = pre.articles
                /\ hasVoted' = pre.hasVoted
                /\ userVote' = pre.userVote
                /\ hasAccess' =
                      IF call.op = "purchaseArticle"
                      THEN [pre.hasAccess EXCEPT ![call.id][call.sender] = TRUE]
                      ELSE pre.hasAccess
                /\ balance' = [pre.balance EXCEPT ![call.sender] = @ - call.value,
                                                  ![frame.to] = @ + call.value]
                /\ txCount' = pre.txCount + 1
                /\ logs' = <<frame.event>>
             \/ /\ frame' = NoFrame
                /\ lastCall' = [call EXCEPT !.status = "transfer failed"]
                /\ articleCount' = pre.articleCount
                /\ articles' = pre.articles
                /\ hasVoted' = pre.hasVoted
                /\ userVote' = pre.userVote
                /\ hasAccess' = pre.hasAccess
                /\ balance' = pre.balance
                /\ txCount' = pre.txCount
                /\ logs' = <<>>
      ]_vars

\* during a purchase, after the grant was written, the author's receive() has
\* called voteArticle on the article and the call ran out of gas
C27_Witness ==
    /\ frame.stage = "transfer" /\ frame.nested = 1
    /\ frame.call.op = "purchaseArticle"
    /\ hasAccess[frame.call.id][frame.call.sender]
    /\ ~frame.pre.hasAccess[frame.call.id][frame.call.sender]
    /\ balance[This] = frame.call.value
    /\ lastCall.op = "voteArticle" /\ lastCall.sender = frame.to
    /\ lastCall.status = "out of gas"
    /\ ~hasVoted[lastCall.id][frame.to]
    /\ articles[lastCall.id].price = 0 \/ hasAccess[lastCall.id][frame.to]
\* ---- C30
\* C30: in the WalletProvider, under every interleaving of connectWallet,
\* disconnectWallet, checkConnection and the wallet's accountsChanged events,
\* account, provider and contract are all null or all non-null, and once the
\* wallet's announcements are delivered and no connect or check is running,
\* a non-null account (and the contract's signer) is the account the wallet
\* has selected: after a switch to another account the client follows.
C30_ClientFollowsWallet ==
    /\ \/ account = Null /\ provider = Null /\ contract = Null
       \/ account # Null /\ provider # Null /\ contract # Null
    /\ (/\ walletEvents = <<>>
        /\ connecting.pc = "done" /\ checking.pc = "done"
        /\ account # Null)
       => /\ account = walletAccount
          /\ contract = Contract(walletAccount)
====
